---- MODULE Spec2Model ----
(***************************************************************************)
(* Render scheduler, spring animator, icon raster cache and exporter of    *)
(* src/src/components/DefaultTheme.vue.                                    *)
(*                                                                         *)
(* Numbers are fixed point: one configuration unit (px or percent) is      *)
(* Scale model units, times are in milliseconds.  One step of the model    *)
(* is one macrotask of the JavaScript event loop together with the         *)
(* microtasks it queues; callbacks of requestAnimationFrame run in         *)
(* registration order inside one display frame.                            *)
(***************************************************************************)
EXTENDS Integers, Sequences, FiniteSets, TLC

\* ------------------------------------------------------------------ bounds
\* number of inputs from outside the component: configuration edits, calls of
\* the exposed operations, the font arriving, the unmount
MaxEvents == 2
MaxSpringTicks == 3

\* ------------------------------------------------------- fixed-point scale
Scale == 100 * 100

Abs(x) == IF x < 0 THEN -x ELSE x

\* division rounding toward zero, sign-symmetric like the floating-point code
Div(a, b) == IF a >= 0 THEN a \div b ELSE -((-a) \div b)

Min(a, b) == IF a < b THEN a ELSE b

RemoveAt(s, i) == SubSeq(s, 1, i - 1) \o SubSeq(s, i + 1, Len(s))

\* ------------------------------------------------------- program constants
SPRING_STIFFNESS == 200
SPRING_DAMPING == 20
SPRING_MASS == 1
SPRING_PRECISION == Scale \div 100
MAX_DT == 100
FONT_MAX_WAIT == 3000
FONT_POLL == 100

Keys == {"titleSize", "titleX", "titleY", "watermarkSize", "watermarkX",
         "watermarkY", "iconSize", "iconX", "iconY", "watermarkOpacity",
         "backgroundBlur"}

\* the seven values renderCurrentFrame passes to renderFrame
FrameArgs == {"titleX", "titleY", "watermarkX", "watermarkY", "iconSize",
              "iconX", "iconY"}

\* the linear size quantities of a composite
SizeQuantities ==
  {"iconSize", "iconShadowBlur", "titleFont", "titleShadowBlur",
   "titleShadowOffset", "titleStroke", "watermarkFont", "watermarkStroke"}

createAnimationState(initialValue) ==
  [value |-> initialValue, target |-> initialValue, velocity |-> 0]

\* --------------------------------------------------------- spring animator
updateSpringAnimation_noSnap(state, dt) ==
  LET displacement == state.target - state.value
  IN IF Abs(displacement) < SPRING_PRECISION /\ Abs(state.velocity) < SPRING_PRECISION
     THEN [state |-> state, active |-> FALSE]
     ELSE LET force == SPRING_STIFFNESS * displacement - SPRING_DAMPING * state.velocity
              acceleration == Div(force, SPRING_MASS)
              velocity == state.velocity + Div(acceleration * dt, 1000)
              value == state.value + Div(velocity * dt, 1000)
          IN [state |-> [state EXCEPT !.velocity = velocity, !.value = value],
              active |-> TRUE]

updateSpringAnimation_dampingSign(state, dt) ==
  LET displacement == state.target - state.value
  IN IF Abs(displacement) < SPRING_PRECISION /\ Abs(state.velocity) < SPRING_PRECISION
     THEN [state |-> [state EXCEPT !.value = state.target, !.velocity = 0],
           active |-> FALSE]
     ELSE LET force == SPRING_STIFFNESS * displacement + SPRING_DAMPING * state.velocity
              acceleration == Div(force, SPRING_MASS)
              velocity == state.velocity + Div(acceleration * dt, 1000)
              value == state.value + Div(velocity * dt, 1000)
          IN [state |-> [state EXCEPT !.velocity = velocity, !.value = value],
              active |-> TRUE]

updateSpringAnimation(state, dt) ==
  LET displacement == state.target - state.value
  IN IF Abs(displacement) < SPRING_PRECISION /\ Abs(state.velocity) < SPRING_PRECISION
     THEN [state |-> [state EXCEPT !.value = state.target, !.velocity = 0],
           active |-> FALSE]
     ELSE LET springForce == SPRING_STIFFNESS * displacement
              dampingForce == -SPRING_DAMPING * state.velocity
              force == springForce + dampingForce
              acceleration == Div(force, SPRING_MASS)
              velocity == state.velocity + Div(acceleration * dt, 1000)
              value == state.value + Div(velocity * dt, 1000)
          IN [state |-> [state EXCEPT !.velocity = velocity, !.value = value],
              active |-> TRUE]

\* min((currentTime - lastTime) / 1000, 0.1), in milliseconds
deltaTime(elapsed) == Min(elapsed, MAX_DT)


\* ------------------------------------------------------ configuration
NoImage == "none"

\* icon sources: "" is no icon, "x" is markup that fails to rasterize
IconSources == {"", "a", "b", "x"}
rasterizes(src) == src \in {"a", "b"}

TitleSizes == {0, 2 * Scale}
IconXs == {50 * Scale, 51 * Scale}

\* time between two display-refresh callbacks, in milliseconds
Elapsed == {50}

\* time a setTimeout(resolve, 100) sleep takes, in milliseconds: never less
\* than FONT_POLL; timers of a throttled page fire once a second
SleepMs == {1000}

BaseAnim ==
  [k \in Keys |->
     CASE k = "titleSize" -> 2 * Scale
       [] k = "titleX" -> 50 * Scale
       [] k = "titleY" -> 50 * Scale
       [] k = "watermarkSize" -> Scale
       [] k = "watermarkX" -> 90 * Scale
       [] k = "watermarkY" -> 90 * Scale
       [] k = "iconSize" -> 3 * Scale
       [] k = "iconX" -> 50 * Scale
       [] k = "iconY" -> 30 * Scale
       [] k = "watermarkOpacity" -> 80 * Scale
       [] OTHER -> 0]

\* props: the four configuration objects, reduced to the fields the core reads
\* iconShadowSize is iconConfig.shadowSize, textShadow is
\* titleConfig.effects.textShadow, titleBold / watermarkBold say that
\* effects.bold is set and the font is "Maple Mono CN"
BaseProps ==
  [anim |-> BaseAnim, svg |-> "a", bgType |-> "color", gradientValid |-> TRUE,
   titleText |-> "T", watermarkText |-> "W", iconShadowSize |-> 4 * Scale,
   textShadow |-> 2 * Scale, titleBold |-> TRUE, watermarkBold |-> TRUE]

\* background configurations: a solid colour, a gradient, and a gradient one of
\* whose colour strings is not #RRGGBB
Backgrounds ==
  {[type |-> "color", valid |-> TRUE], [type |-> "gradient", valid |-> TRUE],
   [type |-> "gradient", valid |-> FALSE]}

\* the configurations one edit away from p
Variants(p) ==
  {[p EXCEPT !.anim["titleSize"] = v] : v \in TitleSizes}
    \cup {[p EXCEPT !.anim["iconX"] = v] : v \in IconXs}
    \cup {[p EXCEPT !.svg = v] : v \in IconSources}
    \cup {[p EXCEPT !.bgType = b.type, !.gradientValid = b.valid] : b \in Backgrounds}

\* ------------------------------------------------------------------ state
VARIABLES props, surface, fontEnv, fontLoaded, iconImageCache, updateTimer,
          timers, isUpdating, animationStates, animationLoopRunning,
          rafQueue, inFrame, waiting, loading, mount, export, lastFrame,
          nEvents, burst, targetsUpdated, failedSrc, ev, sp, sp0, spRet, spN, spDt, lay

sched == <<props, surface, fontEnv, fontLoaded, iconImageCache, updateTimer,
           timers, isUpdating, animationStates, animationLoopRunning,
           rafQueue, inFrame, waiting, loading, mount, export, lastFrame,
           nEvents, burst, targetsUpdated, failedSrc, ev>>

spring == <<sp, sp0, spRet, spN, spDt>>

\* what the spring specifications leave alone, what the scheduler leaves alone
beside == <<sched, lay>>

aside == <<spring, lay>>

vars == <<sched, spring, lay>>

\* what the last step did (observation only, never read by the program)
Ev(op) ==
  [op |-> op, rcf |-> "none", raster |-> FALSE, dt |-> 0, emit |-> FALSE,
   first |-> FALSE, burst |-> 0, anyActive |-> FALSE, waited |-> 0]

NoFrame ==
  [drawn |-> FALSE, used |-> [k \in Keys |-> 0], icon |-> "", title |-> FALSE,
   watermark |-> FALSE, complete |-> FALSE, ops |-> <<>>,
   m |-> [q \in SizeQuantities |-> 0]]

\* exportImage has not been called
NoDownload == [href |-> <<>>, download |-> ""]

NoSave == [path |-> "", dataUrl |-> <<>>]

NoExport ==
  [pc |-> "idle", src |-> "", cfg |-> [width |-> 0, height |-> 0],
   iconDrawn |-> FALSE, ops |-> <<>>, m |-> [q \in SizeQuantities |-> 0],
   pos |-> [k \in {"iconX", "iconY", "titleY", "watermarkY"} |-> 0],
   titleX |-> [textAlign |-> "", pos |-> 0],
   watermarkX |-> [textAlign |-> "", pos |-> 0],
   dataURL |-> <<>>, savePath |-> "", outcome |-> "", desktop |-> NoSave,
   link |-> NoDownload]

SchedInit ==
  /\ props = BaseProps
  /\ surface = "ok"
  /\ fontEnv \in {"absent", "error"}
  /\ fontLoaded = FALSE
  /\ iconImageCache = NoImage
  /\ updateTimer = 0
  /\ timers = {}
  /\ isUpdating = FALSE
  /\ animationStates = [k \in Keys |-> createAnimationState(0)]
  /\ animationLoopRunning = FALSE
  /\ rafQueue = <<>>
  /\ inFrame = <<>>
  /\ waiting = <<>>
  /\ loading = <<>>
  /\ mount = [pc |-> "init", elapsed |-> 0]
  /\ export = NoExport
  /\ lastFrame = NoFrame
  /\ nEvents = 0
  /\ burst = 0
  /\ targetsUpdated = FALSE
  /\ failedSrc = ""
  /\ ev = Ev("init")

SpringIdle ==
  /\ sp = createAnimationState(0)
  /\ sp0 = createAnimationState(0)
  /\ spRet = "none"
  /\ spN = 0
  /\ spDt = 0

\* no layout has been resolved
NoLayout ==
  [pc |-> "idle", item |-> "", axis |-> "", current |-> 0, size |-> 0,
   extent |-> 0, textAlign |-> "", pos |-> 0]

LayoutIdle == lay = NoLayout

Init == SchedInit /\ SpringIdle /\ LayoutIdle

\* ------------------------------------------------------------ font wait
\* checkFontLoaded: the value it leaves in fontLoaded
checkFontLoaded(loaded, env) ==
  IF loaded THEN TRUE ELSE env \in {"present", "error"}

\* one pass through the head of waitForFont's loop, elapsed ms after its start
waitForFontStep_noTimeout(loaded, env, elapsed) ==
  IF loaded
  THEN [loaded |-> loaded, done |-> TRUE]
  ELSE LET l == checkFontLoaded(loaded, env) IN [loaded |-> l, done |-> l]

waitForFontStep(loaded, env, elapsed) ==
  IF loaded \/ elapsed >= FONT_MAX_WAIT
  THEN [loaded |-> loaded, done |-> TRUE]
  ELSE LET l == checkFontLoaded(loaded, env) IN [loaded |-> l, done |-> l]

\* ------------------------------------------------------------- debounce
clearTimeout_noop(ts, id) == ts

clearTimeout(ts, id) == ts \ {id}

debouncedUpdateCanvas ==
  /\ timers' = (IF updateTimer # 0 THEN clearTimeout(timers, updateTimer) ELSE timers)
                 \cup {updateTimer + 1}
  /\ updateTimer' = updateTimer + 1
  /\ burst' = burst + 1
  /\ UNCHANGED <<animationStates, animationLoopRunning, rafQueue, targetsUpdated>>

\* updateAnimationTargets: the animation states it leaves
updateAnimationTargets(states, p) ==
  LET retargeted == [k \in Keys |-> [states[k] EXCEPT !.target = p.anim[k]]]
  IN IF retargeted["titleSize"].value = 0
     THEN [k \in Keys |-> [retargeted[k] EXCEPT !.value = retargeted[k].target]]
     ELSE retargeted

\* startAnimationLoop: flag and display-refresh queue it leaves
startAnimationLoop_unguarded ==
  /\ animationLoopRunning' = TRUE
  /\ rafQueue' = Append(rafQueue, "loop")

startAnimationLoop ==
  /\ animationLoopRunning' = TRUE
  /\ rafQueue' = IF animationLoopRunning THEN rafQueue ELSE Append(rafQueue, "loop")

updateCanvas_immediate(op) ==
  /\ animationStates' = updateAnimationTargets(animationStates, props')
  /\ startAnimationLoop
  /\ targetsUpdated' = TRUE
  /\ UNCHANGED <<timers, updateTimer, burst>>
  /\ ev' = [Ev(op) EXCEPT !.emit = TRUE]

updateCanvas_silent(op) ==
  /\ debouncedUpdateCanvas
  /\ ev' = Ev(op)

updateCanvas(op) ==
  /\ debouncedUpdateCanvas
  /\ ev' = [Ev(op) EXCEPT !.emit = TRUE]

\* the debounce timer fires
TimerFired ==
  /\ inFrame = <<>>
  /\ \E id \in timers :
       /\ timers' = timers \ {id}
       /\ animationStates' = updateAnimationTargets(animationStates, props)
       /\ startAnimationLoop
       /\ targetsUpdated' = TRUE
       /\ burst' = 0
       /\ ev' = [Ev("updateAnimationTargets") EXCEPT !.first = ~targetsUpdated,
                                                    !.burst = burst]
  /\ UNCHANGED <<props, surface, fontEnv, fontLoaded, iconImageCache, updateTimer,
                 isUpdating, inFrame, waiting, loading, mount, export, lastFrame,
                 nEvents, failedSrc, aside>>

\* watch callbacks: a configuration edit reaches the component
ConfigChange ==
  /\ inFrame = <<>>
  /\ surface # "noCanvas"
  /\ mount.pc # "init"
  /\ nEvents < MaxEvents
  /\ \E p \in Variants(props) :
       /\ p # props
       /\ props' = p
       /\ iconImageCache' = IF p.svg # props.svg THEN NoImage ELSE iconImageCache
       /\ failedSrc' = IF p.svg # props.svg THEN "" ELSE failedSrc
  /\ nEvents' = nEvents + 1
  /\ updateCanvas("configChange")
  /\ UNCHANGED <<surface, fontEnv, fontLoaded, isUpdating, inFrame, waiting,
                 loading, mount, export, lastFrame, aside>>

\* the parent calls the exposed updateCanvas
ExposedUpdateCanvas ==
  /\ inFrame = <<>>
  /\ surface # "noCanvas"
  /\ mount.pc # "init"
  /\ nEvents < MaxEvents
  /\ nEvents' = nEvents + 1
  /\ UNCHANGED <<props, surface, fontEnv, fontLoaded, iconImageCache, isUpdating,
                 inFrame, waiting, loading, mount, export, lastFrame, failedSrc, aside>>
  /\ updateCanvas("exposedUpdateCanvas")


\* --------------------------------------------------------- animation loop
advanceAll(states, dt) ==
  [k \in Keys |-> updateSpringAnimation(states[k], dt).state]

anyActive_lastOnly(states, dt) ==
  updateSpringAnimation(states["backgroundBlur"], dt).active

anyActive(states, dt) ==
  \E k \in Keys : updateSpringAnimation(states[k], dt).active

\* line 365: a render in progress suppresses the call
renderGuard_off(updating) == FALSE

renderGuard(updating) == updating

\* lines 341-345: the end of a tick, after renderCurrentFrame has returned
tickTail(q, active) ==
  /\ rafQueue' = IF active THEN Append(q, "loop") ELSE q
  /\ animationLoopRunning' = IF active THEN animationLoopRunning ELSE FALSE

\* the browser starts a display frame: the callbacks registered so far run,
\* in registration order, before anything else
BeginFrame ==
  /\ inFrame = <<>>
  /\ rafQueue # <<>>
  /\ inFrame' = rafQueue
  /\ rafQueue' = <<>>
  /\ ev' = Ev("beginFrame")
  /\ UNCHANGED <<props, surface, fontEnv, fontLoaded, iconImageCache, updateTimer,
                 timers, isUpdating, animationStates, animationLoopRunning,
                 waiting, loading, mount, export, lastFrame, nEvents, burst,
                 targetsUpdated, failedSrc, aside>>

\* animationLoop: one tick, up to the first point where it waits for a macrotask
Tick ==
  /\ inFrame # <<>>
  /\ Head(inFrame) = "loop"
  /\ inFrame' = Tail(inFrame)
  /\ \E e \in Elapsed :
       LET dt == deltaTime(e)
           active == anyActive(animationStates, dt)
           w == waitForFontStep(fontLoaded, fontEnv, 0)
           tev == [Ev("tick") EXCEPT !.dt = dt, !.anyActive = active]
       IN /\ animationStates' = advanceAll(animationStates, dt)
          /\ IF renderGuard(isUpdating)
             THEN /\ tickTail(rafQueue, active)
                  /\ ev' = [tev EXCEPT !.rcf = "suppressed"]
                  /\ UNCHANGED <<isUpdating, fontLoaded, waiting>>
             ELSE IF surface # "ok"
             THEN /\ isUpdating' = FALSE
                  /\ tickTail(rafQueue, active)
                  /\ ev' = [tev EXCEPT !.rcf = "aborted"]
                  /\ UNCHANGED <<fontLoaded, waiting>>
             ELSE IF w.done
             THEN /\ isUpdating' = TRUE
                  /\ fontLoaded' = w.loaded
                  /\ tickTail(Append(rafQueue, "render"), active)
                  /\ ev' = [tev EXCEPT !.rcf = "started"]
                  /\ UNCHANGED waiting
             ELSE /\ isUpdating' = TRUE
                  /\ fontLoaded' = w.loaded
                  /\ waiting' = Append(waiting, [elapsed |-> 0, anyActive |-> active])
                  /\ ev' = [tev EXCEPT !.rcf = "waiting"]
                  /\ UNCHANGED <<rafQueue, animationLoopRunning>>
  /\ UNCHANGED <<props, surface, fontEnv, iconImageCache, updateTimer, timers,
                 loading, mount, export, lastFrame, nEvents, burst,
                 targetsUpdated, failedSrc, aside>>

\* the 100 ms sleep inside waitForFont ends for a suspended renderCurrentFrame;
\* when the wait is over the frame callback is registered and the tick resumes
fontWake(delays) ==
  /\ inFrame = <<>>
  /\ \E i \in DOMAIN waiting, d \in delays :
       LET e == waiting[i].elapsed + d
           w == waitForFontStep(fontLoaded, fontEnv, e)
       IN /\ d >= FONT_POLL
          /\ fontLoaded' = w.loaded
          /\ IF w.done
             THEN /\ waiting' = RemoveAt(waiting, i)
                  /\ tickTail(Append(rafQueue, "render"), waiting[i].anyActive)
                  /\ ev' = [Ev("tickResume") EXCEPT !.anyActive = waiting[i].anyActive,
                                                    !.waited = e]
             ELSE /\ waiting' = [waiting EXCEPT ![i].elapsed = e]
                  /\ ev' = Ev("fontSleep")
                  /\ UNCHANGED <<rafQueue, animationLoopRunning>>
  /\ UNCHANGED <<props, surface, fontEnv, iconImageCache, updateTimer, timers,
                 isUpdating, animationStates, inFrame, loading, mount, export,
                 lastFrame, nEvents, burst, targetsUpdated, failedSrc, aside>>

FontWake == fontWake(SleepMs)


\* --------------------------------------------------------- layout resolver
\* the preview canvas of the template
CANVAS_WIDTH == 1920
CANVAS_HEIGHT == 1080

\* min + (max - min) * (current / 100)
interpolate(minV, maxV, current) ==
  minV + Div(Div(maxV - minV, 1000) * Div(current, 100), 10)

\* iconPosX / iconPosY: the centre drawIcon draws the icon around
iconPos_wholeSize(current, iconSize, extent) ==
  IF current <= 0 THEN iconSize
  ELSE IF current >= 100 * Scale THEN extent - iconSize
  ELSE interpolate(iconSize, extent - iconSize, current)

iconPos_unclamped(current, iconSize, extent) ==
  interpolate(Div(iconSize, 2), extent - Div(iconSize, 2), current)

iconPos(current, iconSize, extent) ==
  LET halfIconSize == Div(iconSize, 2)
  IN IF current <= 0 THEN halfIconSize
     ELSE IF current >= 100 * Scale THEN extent - halfIconSize
     ELSE interpolate(halfIconSize, extent - halfIconSize, current)

\* titlePosX / watermarkPosX with the textAlign set beside it
textPosX(current, textWidth, width) ==
  IF current <= 0 THEN [textAlign |-> "left", pos |-> 0]
  ELSE IF current >= 100 * Scale THEN [textAlign |-> "right", pos |-> width]
  ELSE [textAlign |-> "center",
        pos |-> interpolate(Div(textWidth, 2), width - Div(textWidth, 2), current)]

\* titlePosY / watermarkPosY, textBaseline = "middle"
textPosY(current, textHeight, height) ==
  LET halfTextHeight == Div(textHeight, 2)
  IN IF current <= 0 THEN halfTextHeight
     ELSE IF current >= 100 * Scale THEN height - halfTextHeight
     ELSE interpolate(halfTextHeight, height - halfTextHeight, current)

\* where fillText / drawImage put content of the given size: its two ends
spanOf(textAlign, pos, size) ==
  CASE textAlign = "left" -> [from |-> pos, to |-> pos + size]
    [] textAlign = "right" -> [from |-> pos - size, to |-> pos]
    [] OTHER -> [from |-> pos - Div(size, 2), to |-> pos - Div(size, 2) + size]

\* ------------------------------------------------------- drawn quantities
\* ctx.measureText(text).width at the given font size (a monospaced face
\* whose advance is 0.6 em)
measureText(text, size) == Div(Len(text) * size * 6, 10)

\* the sizes renderFrame and drawIcon use; vals are the arguments of renderFrame
previewMeasures(vals, p) ==
  [q \in SizeQuantities |->
     CASE q = "iconSize" -> IF p.svg # "" THEN vals["iconSize"] ELSE 0
       [] q = "iconShadowBlur" ->
            IF p.svg # "" /\ p.iconShadowSize > 0 THEN p.iconShadowSize ELSE 0
       [] q = "titleFont" -> IF p.titleText # "" THEN p.anim["titleSize"] ELSE 0
       [] q = "titleShadowBlur" ->
            IF p.titleText # "" /\ p.textShadow > 0 THEN p.textShadow * 2 ELSE 0
       [] q = "titleShadowOffset" ->
            IF p.titleText # "" /\ p.textShadow > 0 THEN p.textShadow ELSE 0
       [] q = "titleStroke" ->
            IF p.titleText # "" /\ p.titleBold
            THEN Div(p.anim["titleSize"] * 2, 100) ELSE 0
       [] q = "watermarkFont" -> IF p.watermarkText # "" THEN p.anim["watermarkSize"] ELSE 0
       [] OTHER ->
            IF p.watermarkText # "" /\ p.watermarkBold
            THEN Div(p.anim["watermarkSize"], 100) ELSE 0]

\* ----------------------------------------------------------- frame render
\* gradient.addColorStop rejects a colour string built from a malformed hex
backgroundThrows(p) == p.bgType = "gradient" /\ ~p.gradientValid

\* what the preview canvas shows: the value used for each animated scalar,
\* the icon image drawn, and whether title and watermark were drawn
\* the draw operations of the second half of a composite, appended to the
\* ones before the icon
composite_textFirst(before, icon, title, watermark) ==
  before \o (IF title THEN <<"title">> ELSE <<>>)
         \o (IF watermark THEN <<"watermark">> ELSE <<>>)
         \o (IF icon THEN <<"icon">> ELSE <<>>)

composite(before, icon, title, watermark) ==
  before \o (IF icon THEN <<"icon">> ELSE <<>>)
         \o (IF title THEN <<"title">> ELSE <<>>)
         \o (IF watermark THEN <<"watermark">> ELSE <<>>)

frameOf(vals, p, icon, full, before) ==
  [drawn |-> TRUE,
   used |-> [k \in Keys |-> IF k \in FrameArgs THEN vals[k] ELSE p.anim[k]],
   icon |-> icon,
   title |-> full /\ p.titleText # "",
   watermark |-> full /\ p.watermarkText # "",
   complete |-> full,
   ops |-> IF full
           THEN composite(before, icon # "", p.titleText # "", p.watermarkText # "")
           ELSE before,
   m |-> previewMeasures(vals, p)]

\* img.onerror: the cache it leaves
onerrorCache_memo(cache, src) == src

onerrorCache(cache, src) == cache

\* the frame callback registered by renderCurrentFrame (lines 386-408)
RenderCb ==
  /\ inFrame # <<>>
  /\ Head(inFrame) = "render"
  /\ inFrame' = Tail(inFrame)
  /\ LET vals == [k \in FrameArgs |-> animationStates[k].value]
     IN IF surface # "ok"
        THEN /\ isUpdating' = FALSE
             /\ ev' = [Ev("renderCb") EXCEPT !.rcf = "noSurface"]
             /\ UNCHANGED <<lastFrame, loading>>
        ELSE IF backgroundThrows(props)
        THEN /\ lastFrame' = frameOf(vals, props, "", FALSE, <<"white">>)
             /\ ev' = [Ev("renderCb") EXCEPT !.rcf = "threw"]
             /\ UNCHANGED <<isUpdating, loading>>
        ELSE IF props.svg = ""
        THEN /\ lastFrame' = frameOf(vals, props, "", TRUE, <<"white", "background">>)
             /\ isUpdating' = FALSE
             /\ ev' = [Ev("renderCb") EXCEPT !.rcf = "drawn"]
             /\ UNCHANGED loading
        ELSE IF iconImageCache # NoImage
        THEN /\ lastFrame' = frameOf(vals, props, iconImageCache, TRUE,
                                      <<"white", "background">>)
             /\ isUpdating' = FALSE
             /\ ev' = [Ev("renderCb") EXCEPT !.rcf = "drawn"]
             /\ UNCHANGED loading
        ELSE /\ lastFrame' = frameOf(vals, props, "", FALSE, <<"white", "background">>)
             /\ loading' = Append(loading, [src |-> props.svg, vals |-> vals])
             /\ ev' = [Ev("renderCb") EXCEPT !.rcf = "loading", !.raster = TRUE]
             /\ UNCHANGED isUpdating
  /\ UNCHANGED <<props, surface, fontEnv, fontLoaded, iconImageCache, updateTimer,
                 timers, animationStates, animationLoopRunning, rafQueue,
                 waiting, mount, export, nEvents, burst, targetsUpdated, failedSrc, aside>>

\* img.onload / img.onerror of a rasterization started by drawIcon; renderFrame
\* then draws title and watermark and the callback clears isUpdating
IconDone ==
  /\ inFrame = <<>>
  /\ \E i \in DOMAIN loading :
       LET r == loading[i]
           ok == rasterizes(r.src)
       IN /\ iconImageCache' = IF ok THEN r.src ELSE onerrorCache(iconImageCache, r.src)
          /\ lastFrame' = frameOf(r.vals, props, IF ok THEN r.src ELSE "", TRUE,
                                   lastFrame.ops)
          /\ loading' = RemoveAt(loading, i)
          /\ failedSrc' = IF ok THEN failedSrc ELSE r.src
          /\ ev' = [Ev("iconDone") EXCEPT !.rcf = IF ok THEN "drawn" ELSE "iconFailed"]
  /\ isUpdating' = FALSE
  /\ UNCHANGED <<props, surface, fontEnv, fontLoaded, updateTimer, timers,
                 animationStates, animationLoopRunning, rafQueue, inFrame,
                 waiting, mount, export, nEvents, burst, targetsUpdated, aside>>

\* ------------------------------------------------------------------ mount
MountStart ==
  /\ mount.pc = "init"
  /\ UNCHANGED <<props, surface, fontEnv, iconImageCache, isUpdating, inFrame,
                 waiting, loading, export, lastFrame, nEvents, failedSrc, aside>>
  /\ LET w == waitForFontStep(fontLoaded, fontEnv, 0)
     IN /\ fontLoaded' = w.loaded
        /\ IF w.done
           THEN /\ mount' = [pc |-> "done", elapsed |-> 0]
                /\ updateCanvas("mounted")
           ELSE /\ mount' = [pc |-> "waiting", elapsed |-> 0]
                /\ ev' = Ev("fontSleep")
                /\ UNCHANGED <<timers, updateTimer, burst, animationStates,
                               animationLoopRunning, rafQueue, targetsUpdated>>

mountWake(delays) ==
  /\ inFrame = <<>>
  /\ mount.pc = "waiting"
  /\ UNCHANGED <<props, surface, fontEnv, iconImageCache, isUpdating, inFrame,
                 waiting, loading, export, lastFrame, nEvents, failedSrc, aside>>
  /\ \E d \in delays :
     LET e == mount.elapsed + d
         w == waitForFontStep(fontLoaded, fontEnv, e)
     IN /\ d >= FONT_POLL
        /\ fontLoaded' = w.loaded
        /\ IF w.done
           THEN /\ mount' = [pc |-> "done", elapsed |-> 0]
                /\ updateCanvas("mounted")
           ELSE /\ mount' = [pc |-> "waiting", elapsed |-> e]
                /\ ev' = Ev("fontSleep")
                /\ UNCHANGED <<timers, updateTimer, burst, animationStates,
                               animationLoopRunning, rafQueue, targetsUpdated>>

MountWake == mountWake(SleepMs)

\* ------------------------------------------------------------ environment
\* the font becomes available to the measuring canvas
FontArrives ==
  /\ inFrame = <<>>
  /\ fontEnv = "absent"
  /\ nEvents < MaxEvents
  /\ nEvents' = nEvents + 1
  /\ fontEnv' = "present"
  /\ ev' = Ev("fontArrives")
  /\ UNCHANGED <<props, surface, fontLoaded, iconImageCache, updateTimer, timers,
                 isUpdating, animationStates, animationLoopRunning, rafQueue,
                 inFrame, waiting, loading, mount, export, lastFrame,
                 burst, targetsUpdated, failedSrc, aside>>

\* the component is unmounted: previewCanvas.value is no longer set
Unmount ==
  /\ inFrame = <<>>
  /\ mount.pc # "init"
  /\ surface = "ok"
  /\ nEvents < MaxEvents
  /\ nEvents' = nEvents + 1
  /\ surface' = "noCanvas"
  /\ ev' = Ev("unmount")
  /\ UNCHANGED <<props, fontEnv, fontLoaded, iconImageCache, updateTimer, timers,
                 isUpdating, animationStates, animationLoopRunning, rafQueue,
                 inFrame, waiting, loading, mount, export, lastFrame,
                 burst, targetsUpdated, failedSrc, aside>>

\* ----------------------------------------------------------------- export
\* exportConfig: the scheduler exports for the web at twice the preview size
WebExport ==
  [width |-> 2 * CANVAS_WIDTH, height |-> 2 * CANVAS_HEIGHT, format |-> "png",
   fileName |-> "cover", useRandomFileName |-> FALSE,
   currentRandomFileName |-> "", tauri |-> FALSE]

\* x * (exportCanvas.width / canvas.width)
scaled(x, width) == Div(Div(x, 100) * Div(width * 10000, CANVAS_WIDTH), 100)

\* the eleven scalars as exportImage reads them
exportValues_animated(states, p) == [k \in Keys |-> states[k].value]

exportValues(states, p) == p.anim

\* the sizes exportImage uses
exportMeasures(v, p, width) ==
  [q \in SizeQuantities |->
     CASE q = "iconSize" -> IF p.svg # "" THEN scaled(v["iconSize"], width) ELSE 0
       [] q = "iconShadowBlur" ->
            IF p.svg # "" /\ p.iconShadowSize > 0
            THEN scaled(p.iconShadowSize, width) ELSE 0
       [] q = "titleFont" -> IF p.titleText # "" THEN scaled(v["titleSize"], width) ELSE 0
       [] q = "titleShadowBlur" ->
            IF p.titleText # "" /\ p.textShadow > 0
            THEN scaled(p.textShadow, width) * 2 ELSE 0
       [] q = "titleShadowOffset" ->
            IF p.titleText # "" /\ p.textShadow > 0
            THEN scaled(p.textShadow, width) ELSE 0
       [] q = "titleStroke" ->
            IF p.titleText # "" /\ p.titleBold
            THEN Div(scaled(v["titleSize"], width), 100) ELSE 0
       [] q = "watermarkFont" ->
            IF p.watermarkText # "" THEN scaled(v["watermarkSize"], width) ELSE 0
       [] OTHER ->
            IF p.watermarkText # "" /\ p.watermarkBold
            THEN Div(scaled(v["watermarkSize"], width), 100) ELSE 0]

\* adjustedIconPosX / adjustedIconPosY
adjustedIconPos(current, iconSize, extent) ==
  LET halfIconSize == Div(iconSize, 2)
  IN IF current <= 0 THEN halfIconSize
     ELSE IF current >= 100 * Scale THEN extent - halfIconSize
     ELSE LET minX == halfIconSize
              maxX == extent - halfIconSize
          IN minX + Div(Div(maxX - minX, 1000) * Div(current, 100), 10)

\* adjustedTitlePosX / adjustedWatermarkPosX with exportCtx.textAlign
adjustedTextPosX(current, textWidth, width) ==
  IF current <= 0 THEN [textAlign |-> "left", pos |-> 0]
  ELSE IF current >= 100 * Scale THEN [textAlign |-> "right", pos |-> width]
  ELSE LET minX == Div(textWidth, 2)
           maxX == width - Div(textWidth, 2)
       IN [textAlign |-> "center",
           pos |-> minX + Div(Div(maxX - minX, 1000) * Div(current, 100), 10)]

\* adjustedTitlePosY / adjustedWatermarkPosY
adjustedTextPosY(current, textHeight, height) ==
  LET halfTextHeight == Div(textHeight, 2)
  IN IF current <= 0 THEN halfTextHeight
     ELSE IF current >= 100 * Scale THEN height - halfTextHeight
     ELSE LET minY == halfTextHeight
              maxY == height - halfTextHeight
          IN minY + Div(Div(maxY - minY, 1000) * Div(current, 100), 10)

\* `${getFinalFileName()}.${exportConfig.format}`
outputFileName(cfg) ==
  (IF cfg.useRandomFileName /\ cfg.currentRandomFileName # ""
   THEN cfg.currentRandomFileName ELSE cfg.fileName) \o "." \o cfg.format

\* exportCanvas.toDataURL: the encoded image stands for what was drawn
toDataURL(job) == <<job.cfg.width, job.cfg.height, job.cfg.format, job.ops>>

\* the download link that is clicked
downloadLink(job) == [href |-> job.dataURL, download |-> outputFileName(job.cfg)]

\* the catch block of the desktop save: what is delivered after it
afterSaveError_return(link) == NoDownload

afterSaveError(link) == link

\* exportImage from the icon position to the first wait of the delivery
exportFromIcon(job, iconDrawn) ==
  LET v == exportValues(animationStates, props)
      w == job.cfg.width
      now == exportMeasures(v, props, w)
      m == [q \in SizeQuantities |-> IF q = "iconSize" THEN job.m[q] ELSE now[q]]
      drawn == [job EXCEPT
                  !.m = m,
                  !.iconDrawn = iconDrawn,
                  !.ops = composite(job.ops, iconDrawn, props.titleText # "",
                                    props.watermarkText # ""),
                  !.pos["titleY"] =
                     adjustedTextPosY(v["titleY"], m["titleFont"], job.cfg.height * Scale),
                  !.pos["watermarkY"] =
                     adjustedTextPosY(v["watermarkY"], m["watermarkFont"],
                                      job.cfg.height * Scale),
                  !.titleX =
                     adjustedTextPosX(v["titleX"], measureText(props.titleText, m["titleFont"]),
                                      w * Scale),
                  !.watermarkX =
                     adjustedTextPosX(v["watermarkX"],
                                      measureText(props.watermarkText, m["watermarkFont"]),
                                      w * Scale)]
      encoded == [drawn EXCEPT !.dataURL = toDataURL(drawn)]
  IN IF job.cfg.tauri
     THEN [encoded EXCEPT !.pc = "dialog"]
     ELSE [encoded EXCEPT !.pc = "done", !.outcome = "web",
                          !.link = downloadLink(encoded)]

\* exportImage(exportConfig) up to its first wait
exportImage(cfg) ==
  /\ inFrame = <<>>
  /\ mount.pc # "init"
  /\ surface = "ok"
  /\ export.pc \in {"idle", "done", "failed"}
  /\ nEvents < MaxEvents
  /\ nEvents' = nEvents + 1
  /\ LET v == exportValues(animationStates, props)
         iconSize == scaled(v["iconSize"], cfg.width)
         job == [NoExport EXCEPT !.cfg = cfg, !.ops = <<"white">>]
         positioned ==
           [job EXCEPT
              !.src = props.svg,
              !.ops = <<"white", "background">>,
              !.m["iconSize"] = iconSize,
              !.pos["iconX"] = adjustedIconPos(v["iconX"], iconSize, cfg.width * Scale),
              !.pos["iconY"] = adjustedIconPos(v["iconY"], iconSize, cfg.height * Scale)]
     IN IF backgroundThrows(props)
        THEN /\ export' = [job EXCEPT !.pc = "failed"]
             /\ ev' = Ev("exportImage")
        ELSE IF props.svg # ""
        THEN /\ export' = [positioned EXCEPT !.pc = "icon"]
             /\ ev' = [Ev("exportImage") EXCEPT !.raster = TRUE]
        ELSE /\ export' = exportFromIcon([job EXCEPT !.ops = <<"white", "background">>], FALSE)
             /\ ev' = Ev("exportImage")
  /\ UNCHANGED <<props, surface, fontEnv, fontLoaded, iconImageCache, updateTimer,
                 timers, isUpdating, animationStates, animationLoopRunning,
                 rafQueue, inFrame, waiting, loading, mount, lastFrame,
                 burst, targetsUpdated, failedSrc, aside>>

ExportImage == exportImage(WebExport)

\* img.onload / img.onerror of the rasterization exportImage started
ExportIconDone ==
  /\ inFrame = <<>>
  /\ export.pc = "icon"
  /\ export' = exportFromIcon(export, rasterizes(export.src))
  /\ ev' = Ev("exportDone")
  /\ UNCHANGED <<props, surface, fontEnv, fontLoaded, iconImageCache, updateTimer,
                 timers, isUpdating, animationStates, animationLoopRunning,
                 rafQueue, inFrame, waiting, loading, mount, lastFrame, nEvents,
                 burst, targetsUpdated, failedSrc, aside>>

\* the save dialog of the desktop shell returns a path, returns null
\* (cancelled) or fails
SaveDialog ==
  /\ inFrame = <<>>
  /\ export.pc = "dialog"
  /\ \E r \in {"path", "cancelled", "throws"} :
       /\ export' =
            CASE r = "path" -> [export EXCEPT !.pc = "invoke", !.savePath = "chosen"]
              [] r = "cancelled" -> [export EXCEPT !.pc = "done", !.outcome = "cancelled"]
              [] OTHER -> [export EXCEPT !.pc = "done", !.outcome = "dialogFailed",
                                         !.link = afterSaveError(downloadLink(export))]
       /\ ev' = [Ev("saveDialog") EXCEPT !.rcf = r]
  /\ UNCHANGED <<props, surface, fontEnv, fontLoaded, iconImageCache, updateTimer,
                 timers, isUpdating, animationStates, animationLoopRunning,
                 rafQueue, inFrame, waiting, loading, mount, lastFrame, nEvents,
                 burst, targetsUpdated, failedSrc, aside>>

\* invoke("save_export_image") resolves or rejects
InvokeSave ==
  /\ inFrame = <<>>
  /\ export.pc = "invoke"
  /\ \E r \in {"ok", "throws"} :
       /\ export' =
            IF r = "ok"
            THEN [export EXCEPT !.pc = "done", !.outcome = "saved",
                                !.desktop = [path |-> export.savePath,
                                             dataUrl |-> export.dataURL]]
            ELSE [export EXCEPT !.pc = "done", !.outcome = "invokeFailed",
                                !.link = afterSaveError(downloadLink(export))]
       /\ ev' = [Ev("invokeSave") EXCEPT !.rcf = r]
  /\ UNCHANGED <<props, surface, fontEnv, fontLoaded, iconImageCache, updateTimer,
                 timers, isUpdating, animationStates, animationLoopRunning,
                 rafQueue, inFrame, waiting, loading, mount, lastFrame, nEvents,
                 burst, targetsUpdated, failedSrc, aside>>

\* ---------------------------------------------------------- specification
Next ==
  \/ MountStart
  \/ MountWake
  \/ ConfigChange
  \/ ExposedUpdateCanvas
  \/ TimerFired
  \/ BeginFrame
  \/ Tick
  \/ FontWake
  \/ RenderCb
  \/ IconDone
  \/ FontArrives
  \/ Unmount
  \/ ExportImage
  \/ ExportIconDone

Spec == Init /\ [][Next]_vars


\* ------------------------------------------ the font wait, poll by poll
\* time from one test of the loop condition of waitForFont to the next: the
\* check and the 100 ms sleep, on time and late
PollDelays == {100, 130, 250}

MountPoll == mountWake(PollDelays)

FontPoll == fontWake(PollDelays)

FontNext ==
  \/ MountStart
  \/ MountPoll
  \/ TimerFired
  \/ BeginFrame
  \/ Tick
  \/ FontPoll
  \/ RenderCb
  \/ IconDone
  \/ FontArrives

\* timers fire and the display refreshes
FontSpec ==
  /\ Init
  /\ [][FontNext]_vars
  /\ WF_vars(MountStart) /\ WF_vars(MountPoll) /\ WF_vars(TimerFired)
  /\ WF_vars(BeginFrame) /\ WF_vars(Tick) /\ WF_vars(FontPoll)
  /\ WF_vars(RenderCb) /\ WF_vars(IconDone)

\* ------------------------------------------- exports during an animation
\* configurations with sizes as the editor sets them; the icon, title and
\* watermark in the middle of the canvas, at its edges, and left out
ExportAnim ==
  [BaseAnim EXCEPT !["iconSize"] = 200 * Scale, !["titleSize"] = 64 * Scale,
                   !["watermarkSize"] = 24 * Scale]

ExportProps ==
  LET mid == [BaseProps EXCEPT !.anim = ExportAnim]
  IN {mid,
      [mid EXCEPT !.anim["iconX"] = 0, !.anim["iconY"] = 100 * Scale,
                  !.anim["titleX"] = 100 * Scale, !.anim["titleY"] = 0,
                  !.anim["watermarkX"] = 0],
      [mid EXCEPT !.svg = "", !.textShadow = 0, !.titleBold = FALSE],
      [mid EXCEPT !.svg = "x", !.iconShadowSize = 0, !.watermarkBold = FALSE],
      [mid EXCEPT !.titleText = "", !.watermarkText = "Wm"]}

ExportConfigs ==
  {[WebExport EXCEPT !.width = d[1], !.height = d[2], !.tauri = t,
                     !.useRandomFileName = t, !.currentRandomFileName = n] :
     d \in {<<CANVAS_WIDTH, CANVAS_HEIGHT>>, <<2 * CANVAS_WIDTH, 2 * CANVAS_HEIGHT>>,
            <<CANVAS_HEIGHT, CANVAS_HEIGHT>>},
     t \in BOOLEAN, n \in {"", "r4nd0m"}}

\* every state at its target
Settled(p) == [k \in Keys |-> createAnimationState(p.anim[k])]

\* the states right after updateAnimationTargets has moved three targets
Behind(p) ==
  [k \in Keys |->
     [value |-> p.anim[k] - (IF k \in {"iconSize", "iconX", "titleY"} THEN 5 * Scale ELSE 0),
      target |-> p.anim[k], velocity |-> 0]]

\* the component after mount and font load, when the debounce timer has
\* fired and no display frame has run yet
ExportInit ==
  /\ SpringIdle
  /\ LayoutIdle
  /\ props \in ExportProps
  /\ animationStates \in {Settled(props), Behind(props)}
  /\ surface = "ok"
  /\ fontEnv = "present"
  /\ fontLoaded = TRUE
  /\ iconImageCache = NoImage
  /\ updateTimer = 2
  /\ timers = {}
  /\ isUpdating = FALSE
  /\ animationLoopRunning = TRUE
  /\ rafQueue = <<"loop">>
  /\ inFrame = <<>>
  /\ waiting = <<>>
  /\ loading = <<>>
  /\ mount = [pc |-> "done", elapsed |-> 0]
  /\ export = NoExport
  /\ lastFrame = NoFrame
  /\ nEvents = MaxEvents - 1
  /\ burst = 0
  /\ targetsUpdated = TRUE
  /\ failedSrc = ""
  /\ ev = Ev("updateAnimationTargets")

ExportAny == \E cfg \in ExportConfigs : exportImage(cfg)

ExportNext ==
  \/ BeginFrame
  \/ Tick
  \/ RenderCb
  \/ IconDone
  \/ ExportAny
  \/ ExportIconDone
  \/ SaveDialog
  \/ InvokeSave

ExportSpec == ExportInit /\ [][ExportNext]_vars

\* --------------------------------------- preview frames after one edit
\* a configuration with an image-like blur, every scalar away from 0
SmoothProps ==
  [BaseProps EXCEPT !.anim = [ExportAnim EXCEPT !["backgroundBlur"] = 10 * Scale]]

\* how far the edit moved the scalar
SmoothStep == 5 * Scale

\* the states right after updateAnimationTargets has moved the target of k
Retargeted(p, k) ==
  [j \in Keys |->
     [value |-> p.anim[j] - (IF j = k THEN SmoothStep ELSE 0),
      target |-> p.anim[j], velocity |-> 0]]

\* the component after mount and font load, when one scalar has been edited,
\* the debounce timer has fired and no display frame has run yet
SmoothInit ==
  /\ SpringIdle
  /\ LayoutIdle
  /\ props = SmoothProps
  /\ animationStates \in {Retargeted(props, k) : k \in Keys}
  /\ surface = "ok"
  /\ fontEnv = "present"
  /\ fontLoaded = TRUE
  /\ iconImageCache = NoImage
  /\ updateTimer = 2
  /\ timers = {}
  /\ isUpdating = FALSE
  /\ animationLoopRunning = TRUE
  /\ rafQueue = <<"loop">>
  /\ inFrame = <<>>
  /\ waiting = <<>>
  /\ loading = <<>>
  /\ mount = [pc |-> "done", elapsed |-> 0]
  /\ export = NoExport
  /\ lastFrame = NoFrame
  /\ nEvents = MaxEvents
  /\ burst = 0
  /\ targetsUpdated = TRUE
  /\ failedSrc = ""
  /\ ev = Ev("updateAnimationTargets")

SmoothNext ==
  \/ BeginFrame
  \/ Tick
  \/ RenderCb
  \/ IconDone

SmoothSpec == SmoothInit /\ [][SmoothNext]_vars

\* -------------------------------------------- the spring animator on its own
\* displacement and velocity around the precision threshold, and beyond it
SpringOffsets ==
  {-2 * SPRING_PRECISION, -SPRING_PRECISION, 1 - SPRING_PRECISION, -1, 0, 1,
   SPRING_PRECISION - 1, SPRING_PRECISION, 2 * SPRING_PRECISION}

SpringTargets == {0, 5 * Scale}

SpringDts == {0, 1, 17, 50, 100}

SpringInit ==
  /\ SchedInit
  /\ LayoutIdle
  /\ sp0 \in {[value |-> t + d, target |-> t, velocity |-> v] :
                t \in SpringTargets, d \in SpringOffsets, v \in SpringOffsets}
  /\ sp = sp0
  /\ spRet = "none"
  /\ spN = 0
  /\ spDt = 0

\* one call updateSpringAnimation(sp, dt)
SpringTick ==
  /\ spN < MaxSpringTicks
  /\ \E dt \in SpringDts :
       LET r == updateSpringAnimation(sp, dt)
       IN /\ sp' = r.state
          /\ spRet' = IF r.active THEN "active" ELSE "settled"
  /\ spN' = spN + 1
  /\ UNCHANGED <<sp0, spDt, beside>>

SpringNext == SpringTick

SpringSpec == SpringInit /\ [][SpringNext]_vars

\* ------------------------------------- one property animated until it settles
\* the loop of startAnimationLoop reduced to one AnimationState: ticks follow
\* each other for as long as updateSpringAnimation returns true
RunTargets == {0, 5 * Scale}
RunOffsets == {-5 * Scale, -Scale, -SPRING_PRECISION, 0, SPRING_PRECISION, Scale, 5 * Scale}
RunVelocities == {-20 * Scale, 0, 20 * Scale}

\* a fixed small time step: 1/120 s, 1/60 s (rounded either way), 1/30 s
SmallDts == {8, 16, 17, 33}

\* the values the model follows a property through, in fixed-point units:
\* displacement 10, velocity 200 (the integers of the model checker end at 2^31)
RunLimit == 100000
RunVelocityLimit == 2000000

InRange(state, limit, velocityLimit) ==
  /\ Abs(state.target - state.value) <= limit
  /\ Abs(state.velocity) <= velocityLimit

RunInit ==
  /\ SchedInit
  /\ LayoutIdle
  /\ sp0 \in {[value |-> t + d, target |-> t, velocity |-> v] :
                t \in RunTargets, d \in RunOffsets, v \in RunVelocities}
  /\ sp = sp0
  /\ spRet = "none"
  /\ spN = 0
  /\ spDt \in SmallDts

\* one tick of the loop with the time step dt
runTick(dt) ==
  /\ spRet # "settled"
  /\ LET r == updateSpringAnimation(sp, dt)
     IN /\ sp' = r.state
        /\ spRet' = IF r.active THEN "active" ELSE "settled"
  /\ UNCHANGED <<sp0, beside>>

RunTick ==
  /\ InRange(sp, RunLimit, RunVelocityLimit)
  /\ runTick(spDt)
  /\ UNCHANGED <<spN, spDt>>

RunNext == RunTick

\* requestAnimationFrame calls every registered callback
RunSpec == RunInit /\ [][RunNext]_vars /\ WF_vars(RunTick)

\* ------------------------------------ the loop under slow frames (capped dt)
MaxSlowTicks == 6

\* time between two ticks, in milliseconds: a 60 Hz display, and frames whose
\* render takes 50 ms, 100 ms and 250 ms
FrameGaps == {17, 50, 100, 250}

SlowOffsets == {-5 * SPRING_PRECISION, -SPRING_PRECISION, SPRING_PRECISION, 5 * SPRING_PRECISION}
SlowVelocities == {-5 * SPRING_PRECISION, 0, 5 * SPRING_PRECISION}

\* displacement 2, velocity 50, in fixed-point units
SlowLimit == 20000
SlowVelocityLimit == 500000

SlowInit ==
  /\ SchedInit
  /\ LayoutIdle
  /\ sp0 \in {[value |-> t + d, target |-> t, velocity |-> v] :
                t \in RunTargets, d \in SlowOffsets, v \in SlowVelocities}
  /\ sp = sp0
  /\ spRet = "none"
  /\ spN = 0
  /\ spDt = 0

SlowTick ==
  /\ spN < MaxSlowTicks
  /\ InRange(sp, SlowLimit, SlowVelocityLimit)
  /\ \E e \in FrameGaps :
       /\ runTick(deltaTime(e))
       /\ spDt' = deltaTime(e)
  /\ spN' = spN + 1

SlowNext == SlowTick

SlowSpec == SlowInit /\ [][SlowNext]_vars


\* ------------------------------------------------ layout resolver on its own
LayoutItems == {"icon", "title", "watermark"}

\* percent values: configured ones, and the ones a spring passes through when
\* it overshoots 0 or 100
LayoutPercents ==
  {-10 * Scale, -37, 0, 1, 25 * Scale, 50 * Scale, 100 * Scale - 1, 100 * Scale,
   100 * Scale + 37, 130 * Scale}

\* icon size, text width or text height
LayoutSizes == {0, 48 * Scale, 200 * Scale, 1080 * Scale, 1200 * Scale, 2400 * Scale}

LayoutInit ==
  /\ SchedInit
  /\ SpringIdle
  /\ lay \in {[pc |-> "ready", item |-> i, axis |-> a, current |-> c, size |-> z,
                extent |-> (IF a = "x" THEN CANVAS_WIDTH ELSE CANVAS_HEIGHT) * Scale,
                textAlign |-> "", pos |-> 0] :
                 i \in LayoutItems, a \in {"x", "y"}, c \in LayoutPercents,
                 z \in LayoutSizes}

\* the position computation of renderFrame for one item on one axis
Resolve ==
  /\ lay.pc = "ready"
  /\ lay' =
       IF lay.item = "icon"
       THEN [lay EXCEPT !.pc = "resolved", !.textAlign = "center",
                        !.pos = iconPos(lay.current, lay.size, lay.extent)]
       ELSE IF lay.axis = "x"
       THEN LET t == textPosX(lay.current, lay.size, lay.extent)
            IN [lay EXCEPT !.pc = "resolved", !.textAlign = t.textAlign, !.pos = t.pos]
       ELSE [lay EXCEPT !.pc = "resolved", !.textAlign = "center",
                        !.pos = textPosY(lay.current, lay.size, lay.extent)]
  /\ UNCHANGED <<sched, spring>>

LayoutNext == Resolve

LayoutSpec == LayoutInit /\ [][LayoutNext]_vars

\* centre of the resolved content, doubled (sizes may be odd)
Centre2 ==
  LET sp2 == spanOf(lay.textAlign, lay.pos, lay.size) IN sp2.from + sp2.to

\* ------------------------------------------------------------ observations
Count(q, c) == Cardinality({i \in DOMAIN q : q[i] = c})

\* renderCurrentFrame calls that have set isUpdating and whose renderFrame has
\* not yet completed: waiting for the font, registered for the next display
\* frame, or inside renderFrame waiting for the icon to load
InProgress ==
  Len(waiting) + Count(rafQueue, "render") + Count(inFrame, "render") + Len(loading)

\* animationLoop callbacks registered or suspended in a tick
LoopsAlive == Count(rafQueue, "loop") + Count(inFrame, "loop") + Len(waiting)

\* nothing is scheduled: without a new input the component takes no further step
Quiescent ==
  /\ mount.pc = "done"
  /\ timers = {}
  /\ rafQueue = <<>>
  /\ inFrame = <<>>
  /\ waiting = <<>>
  /\ loading = <<>>

AtRest(s) ==
  /\ Abs(s.target - s.value) < Scale \div 100
  /\ Abs(s.velocity) < Scale \div 100

TickStep == inFrame # <<>> /\ Head(inFrame) = "loop" /\ inFrame' = Tail(inFrame)

RenderStep == inFrame # <<>> /\ Head(inFrame) = "render" /\ inFrame' = Tail(inFrame)

UpdateTargetsStep == ev'.op = "updateAnimationTargets" /\ timers' # timers

UpdateCanvasStep == updateTimer' # updateTimer

\* ------------------------------------------------------------------ claims

\* C1: the newest configuration always eventually wins.  Stated on the states
\* in which nothing is scheduled any more (so nothing further happens unless
\* the configuration changes again): with the canvas mounted, no render left
\* in progress and a non-zero title size (so that neither the flag of C3 nor
\* the repeated snap of C9 plays a part), every AnimationState has
\* value = target = the configuration value and the last preview frame was
\* drawn with these values.
C1_NewestConfigWins ==
  (/\ Quiescent /\ targetsUpdated /\ surface = "ok" /\ ~isUpdating
   /\ props.anim["titleSize"] # 0 /\ animationStates["titleSize"].value # 0)
    => /\ \A k \in Keys :
            /\ animationStates[k].target = props.anim[k]
            /\ animationStates[k].value = props.anim[k]
       /\ lastFrame.complete
       /\ \A k \in Keys : lastFrame.used[k] = props.anim[k]

\* C2: at most one preview frame composite is in progress at any time, the
\* flag isUpdating is set while it is, and a renderCurrentFrame call made
\* while isUpdating is set starts no render and draws nothing.
C2_OneComposite ==
  /\ [](InProgress <= 1 /\ (InProgress = 1 => isUpdating))
  /\ [][(TickStep /\ isUpdating)
          => (InProgress' = InProgress /\ lastFrame' = lastFrame /\ loading' = loading)]_vars
  /\ [][(RenderStep /\ surface = "ok") => Len(loading) = 0]_vars

C2_Witness ==
  /\ ev.op = "tick"
  /\ ev.rcf = "suppressed"
  /\ Len(loading) = 1
  /\ isUpdating

\* C3: every renderCurrentFrame call that sets isUpdating clears it again.
\* Stated as: whenever isUpdating is set, the call that set it is still in
\* progress (and clears the flag when it ends).
C3_FlagCleared == isUpdating => InProgress >= 1

\* C4: a tick advances all eleven properties, requests one frame render, and
\* re-schedules itself iff a property was still active; otherwise it clears
\* animationLoopRunning and schedules nothing, and only updateAnimationTargets
\* starts the loop again.
C4_TickRearm ==
  /\ [][TickStep =>
          /\ animationStates' = [k \in Keys |-> updateSpringAnimation(animationStates[k], ev'.dt).state]
          /\ ev'.dt \in 0..MAX_DT
          /\ InProgress' = InProgress + (IF ~isUpdating /\ surface = "ok" THEN 1 ELSE 0)
          /\ IF Len(waiting') > Len(waiting)
             THEN /\ waiting'[Len(waiting')].anyActive = (\E k \in Keys : ~AtRest(animationStates[k]))
                  /\ LoopsAlive' = LoopsAlive
                  /\ animationLoopRunning' = animationLoopRunning
             ELSE /\ LoopsAlive' = LoopsAlive - 1 + (IF \E k \in Keys : ~AtRest(animationStates[k]) THEN 1 ELSE 0)
                  /\ animationLoopRunning' = (\E k \in Keys : ~AtRest(animationStates[k]))]_vars
  /\ [][(Len(waiting') < Len(waiting)) =>
          \E i \in DOMAIN waiting :
             /\ LoopsAlive' = LoopsAlive - 1 + (IF waiting[i].anyActive THEN 1 ELSE 0)
             /\ animationLoopRunning' = waiting[i].anyActive]_vars
  /\ [][(LoopsAlive' > LoopsAlive \/ (~animationLoopRunning /\ animationLoopRunning'))
          => UpdateTargetsStep]_vars
  /\ [](~animationLoopRunning => LoopsAlive = 0)

C4_Witness ==
  /\ ev.op = "tick"
  /\ ev.anyActive
  /\ animationLoopRunning
  /\ Count(rafQueue, "loop") = 1
  /\ \E k \in Keys : animationStates[k].value # animationStates[k].target
  /\ \E k \in Keys : animationStates[k].value = animationStates[k].target

\* C5: a burst of configuration-change events, each arriving before the timer
\* of the previous one has fired, leaves exactly one pending timer; when it
\* fires, updateAnimationTargets is called once for the whole burst and every
\* target equals the configuration value current at that moment.
C5_DebounceCoalesces ==
  /\ [](Cardinality(timers) <= 1 /\ (burst > 0 <=> timers # {}))
  /\ [][UpdateTargetsStep =>
          /\ ev'.burst >= 1
          /\ ev'.burst = burst
          /\ timers' = {}
          /\ \A k \in Keys : animationStates'[k].target = props.anim[k]]_vars

C5_Witness ==
  /\ ev.op = "updateAnimationTargets"
  /\ ev.burst >= 2
  /\ timers = {}
  /\ \A k \in Keys : animationStates[k].target = props.anim[k]
  /\ props # BaseProps

\* C6 (as claimed): a call of the exposed updateCanvas composes a frame as a
\* direct consequence of the call, not through the debounce timer.
C6_RenderNowImmediate ==
  [][(ev'.op = "exposedUpdateCanvas" /\ nEvents' = nEvents + 1)
       => (InProgress' > InProgress \/ lastFrame' # lastFrame)]_vars

\* C6 (amended): a call of the exposed updateCanvas composes nothing: it only
\* replaces the pending debounce timer by a new one, leaving targets, render
\* state and canvas as they are; any later updateCanvas (a configuration
\* change included) cancels the timer that was pending.
C6_UpdateCanvasDebounced ==
  /\ [][(ev'.op = "exposedUpdateCanvas" /\ nEvents' = nEvents + 1) =>
          /\ timers' = {updateTimer'}
          /\ updateTimer' \notin timers
          /\ animationStates' = animationStates
          /\ InProgress' = InProgress
          /\ LoopsAlive' = LoopsAlive
          /\ lastFrame' = lastFrame]_vars
  /\ [][UpdateCanvasStep => timers' \cap timers = {}]_vars

C6_Witness ==
  /\ ev.op = "exposedUpdateCanvas"
  /\ Cardinality(timers) = 1
  /\ lastFrame.complete


\* a frame callback that reaches the icon step of renderFrame
IconStep == RenderStep /\ surface = "ok" /\ ~backgroundThrows(props) /\ props.svg # ""

\* C7: once the icon has been rasterized for the current source, no later
\* draw of it (preview or export) rasterizes again; a change of the source
\* empties the cache and the next draw rasterizes the new source.
C7_IconRasterCache ==
  /\ [][(iconImageCache # NoImage /\ iconImageCache = props.svg /\ props' = props)
          => ~ev'.raster]_vars
  /\ [][props'.svg # props.svg => iconImageCache' = NoImage]_vars
  /\ [][(IconStep /\ iconImageCache # props.svg) => ev'.raster]_vars

\* C8 (as claimed): a source that has failed to rasterize is not rasterized
\* again by a later frame until the source changes.
C8_NoRetry ==
  [][(failedSrc # "" /\ failedSrc = props.svg /\ RenderStep) => ~ev'.raster]_vars

\* C8 (amended): when the icon source fails to rasterize in drawIcon, that
\* frame still completes with title and watermark drawn and without an icon
\* and the cache stays empty; every later frame drawn while the source is
\* unchanged rasterizes it again.
C8_FailedIconRetried ==
  /\ [](ev.rcf = "iconFailed" =>
          /\ lastFrame.complete /\ lastFrame.title /\ lastFrame.watermark
          /\ lastFrame.icon = ""
          /\ ~isUpdating
          /\ iconImageCache = NoImage)
  /\ [][(failedSrc # "" /\ failedSrc = props.svg /\ IconStep)
          => (ev'.raster /\ Len(loading') = Len(loading) + 1)]_vars

C8_Witness ==
  /\ failedSrc # ""
  /\ failedSrc = props.svg
  /\ ev.op = "renderCb"
  /\ ev.raster
  /\ lastFrame.drawn

\* C9: the first updateAnimationTargets call sets value = target for every
\* state; every later call changes only target and leaves value and velocity
\* of every state as they are.
C9_SnapOnlyOnFirstUpdate ==
  [][UpdateTargetsStep =>
       IF ~targetsUpdated
       THEN \A k \in Keys : animationStates'[k].value = animationStates'[k].target
       ELSE \A k \in Keys :
              /\ animationStates'[k].value = animationStates[k].value
              /\ animationStates'[k].velocity = animationStates[k].velocity]_vars

\* C10: for a state with |target - value| < 0.01 and |velocity| < 0.01,
\* updateSpringAnimation returns false leaving value = target and
\* velocity = 0, and every further call, with any dt, changes nothing and
\* returns false again.
C10_IdempotentAtRest ==
  /\ [][(AtRest(sp) /\ spN' = spN + 1) =>
          /\ spRet' = "settled"
          /\ sp'.value = sp.target
          /\ sp'.velocity = 0
          /\ sp'.target = sp.target]_vars
  /\ [][(spRet = "settled" /\ spN' = spN + 1) => (sp' = sp /\ spRet' = "settled")]_vars
  /\ [](spRet = "settled" => (sp.value = sp.target /\ sp.velocity = 0))

C10_Witness ==
  /\ AtRest(sp0)
  /\ sp0.value # sp0.target
  /\ sp0.velocity # 0
  /\ spN >= 2
  /\ spRet = "settled"
  /\ sp.value = sp.target

\* C11: with the target unchanged and a fixed small time step, repeated
\* updateSpringAnimation calls reach, after finitely many ticks, the call that
\* returns false with value = target and velocity = 0.
C11_SpringConverges ==
  <>(/\ spRet = "settled"
     /\ sp.value = sp0.target
     /\ sp.target = sp0.target
     /\ sp.velocity = 0)

C11_Witness ==
  /\ spRet = "settled"
  /\ Abs(sp0.target - sp0.value) = 5 * Scale
  /\ sp0.velocity # 0
  /\ spDt = 17
  /\ sp.value = sp0.target
  /\ sp.velocity = 0

\* C12: whatever the sequence of time steps the cap lets through, the
\* displacement of a property that starts within 0.05 of its target with
\* |velocity| <= 0.05 stays within 1 of the target (twenty times the largest
\* initial displacement).
C12_CappedDtStable == Abs(sp.target - sp.value) <= Scale

\* C13: the resolved centre of the content is half its size for every
\* percent <= 0, the container extent minus half its size for every
\* percent >= 100, and half the container extent for percent 50, for icon,
\* title and watermark on both axes and whatever the sizes are.
C13_LayoutZones ==
  lay.pc = "resolved" =>
    /\ lay.current <= 0 => Centre2 = lay.size
    /\ lay.current >= 100 * Scale => Centre2 = 2 * lay.extent - lay.size
    /\ lay.current = 50 * Scale => Centre2 = lay.extent

C13_Witness ==
  /\ lay.pc = "resolved"
  /\ lay.item = "title"
  /\ lay.axis = "x"
  /\ lay.current > 100 * Scale
  /\ lay.textAlign = "right"
  /\ lay.size = 200 * Scale
  /\ Centre2 = 2 * lay.extent - lay.size

\* C14 (as claimed): for every percent and every content size, the resolved
\* content lies inside the canvas on the axis.
C14_NeverClips ==
  lay.pc = "resolved" =>
    LET s == spanOf(lay.textAlign, lay.pos, lay.size)
    IN 0 <= s.from /\ s.to <= lay.extent

\* C14 (amended): for every percent and every content size that is not
\* larger than the canvas on the axis, the resolved content lies inside the
\* canvas on that axis.
C14_FitsInsideCanvas ==
  (lay.pc = "resolved" /\ lay.size <= lay.extent) =>
    LET s == spanOf(lay.textAlign, lay.pos, lay.size)
    IN 0 <= s.from /\ s.to <= lay.extent

C14_Witness ==
  /\ lay.pc = "resolved"
  /\ lay.item = "icon"
  /\ lay.current = 100 * Scale + 37
  /\ lay.size = 200 * Scale
  /\ spanOf(lay.textAlign, lay.pos, lay.size).to = lay.extent

\* every animated value is at its target and the last preview frame was
\* drawn completely with these values
SettledFrame ==
  /\ \A k \in Keys : animationStates[k] = createAnimationState(props.anim[k])
  /\ lastFrame.complete
  /\ \A k \in Keys : lastFrame.used[k] = props.anim[k]

\* C15: with the same configuration and the animation settled, an export
\* twice as wide as the preview canvas uses, for each linear size quantity,
\* exactly twice the value the preview frame uses.
C15_ExportDoubles ==
  (/\ export.pc = "done"
   /\ export.cfg.width = 2 * CANVAS_WIDTH
   /\ SettledFrame)
    => \A q \in SizeQuantities : export.m[q] = 2 * lastFrame.m[q]

\* C16: whatever the animation states are during exportImage, the sizes it
\* draws are the configured sizes times export width / preview width, and
\* each position is what the layout of renderFrame gives for the configured
\* percent on a surface of the export's own width and height.
C16_ExportBypassesAnimation ==
  /\ export.pc \in {"icon", "dialog", "invoke", "done"} =>
       /\ props.svg # "" =>
            /\ Div(export.m["iconSize"], 100) * CANVAS_WIDTH
                 = Div(props.anim["iconSize"], 100) * export.cfg.width
            /\ export.pos["iconX"] =
                 iconPos(props.anim["iconX"], export.m["iconSize"], export.cfg.width * Scale)
            /\ export.pos["iconY"] =
                 iconPos(props.anim["iconY"], export.m["iconSize"], export.cfg.height * Scale)
  /\ export.pc \in {"dialog", "invoke", "done"} =>
       /\ props.titleText # "" =>
            /\ Div(export.m["titleFont"], 100) * CANVAS_WIDTH
                 = Div(props.anim["titleSize"], 100) * export.cfg.width
            /\ export.titleX =
                 textPosX(props.anim["titleX"],
                          measureText(props.titleText, export.m["titleFont"]),
                          export.cfg.width * Scale)
            /\ export.pos["titleY"] =
                 textPosY(props.anim["titleY"], export.m["titleFont"],
                          export.cfg.height * Scale)
       /\ props.watermarkText # "" =>
            /\ Div(export.m["watermarkFont"], 100) * CANVAS_WIDTH
                 = Div(props.anim["watermarkSize"], 100) * export.cfg.width
            /\ export.watermarkX =
                 textPosX(props.anim["watermarkX"],
                          measureText(props.watermarkText, export.m["watermarkFont"]),
                          export.cfg.width * Scale)
            /\ export.pos["watermarkY"] =
                 textPosY(props.anim["watermarkY"], export.m["watermarkFont"],
                          export.cfg.height * Scale)

C16_Witness ==
  /\ export.pc = "done"
  /\ ev.op = "exportDone"
  /\ animationStates["iconX"].value # props.anim["iconX"]
  /\ animationStates["iconX"].velocity # 0
  /\ export.cfg.height = export.cfg.width
  /\ 2 * export.pos["titleY"] = export.cfg.height * Scale

\* C17: in the desktop shell, when the save dialog or save_export_image
\* fails, the image is delivered through the download link with the encoded
\* payload and the file name of the export; when the desktop save succeeds,
\* no download link is clicked.
C17_DesktopFallback ==
  (export.pc = "done" /\ export.cfg.tauri) =>
    /\ export.outcome \in {"dialogFailed", "invokeFailed"} =>
         /\ export.link = [href |-> export.dataURL, download |-> outputFileName(export.cfg)]
         /\ export.dataURL = toDataURL(export)
         /\ export.desktop = NoSave
    /\ export.outcome = "saved" =>
         /\ export.link = NoDownload
         /\ export.desktop.dataUrl = export.dataURL

C17_Witness ==
  /\ export.pc = "done"
  /\ export.cfg.tauri
  /\ export.outcome = "invokeFailed"
  /\ export.link.download = "r4nd0m.png"
  /\ export.link.href = export.dataURL
  /\ Len(export.dataURL) = 4

\* place of a draw operation in the compositing order
Rank(op) ==
  CASE op = "white" -> 1
    [] op = "background" -> 2
    [] op = "icon" -> 3
    [] op = "title" -> 4
    [] OTHER -> 5

InOrder(ops) ==
  /\ \A i, j \in DOMAIN ops : i < j => Rank(ops[i]) < Rank(ops[j])
  /\ \A i \in DOMAIN ops : i <= 2 => Rank(ops[i]) = i

Drawn(ops, op) == \E i \in DOMAIN ops : ops[i] = op

\* C18: the draw operations of every preview frame and of every export occur
\* in the order white fill, background, icon, title, watermark, none of them
\* before the ones ahead of it that the pass draws; title and watermark are
\* not drawn while the icon rasterization of the pass is pending.
C18_FixedOrder ==
  /\ [](InOrder(lastFrame.ops) /\ InOrder(export.ops))
  /\ [](loading # <<>> =>
          /\ ~Drawn(lastFrame.ops, "icon")
          /\ ~Drawn(lastFrame.ops, "title")
          /\ ~Drawn(lastFrame.ops, "watermark"))
  /\ [](export.pc = "icon" =>
          /\ ~Drawn(export.ops, "icon")
          /\ ~Drawn(export.ops, "title")
          /\ ~Drawn(export.ops, "watermark"))
  /\ [](lastFrame.complete =>
          /\ Drawn(lastFrame.ops, "white") /\ Drawn(lastFrame.ops, "background")
          /\ Drawn(lastFrame.ops, "title") = lastFrame.title
          /\ Drawn(lastFrame.ops, "watermark") = lastFrame.watermark
          /\ Drawn(lastFrame.ops, "icon") = (lastFrame.icon # ""))
  /\ [](export.pc = "done" =>
          /\ Drawn(export.ops, "white") /\ Drawn(export.ops, "background")
          /\ Drawn(export.ops, "icon") = export.iconDrawn)

C18_Witness ==
  /\ ev.op = "exportDone"
  /\ export.ops = <<"white", "background", "icon", "title", "watermark">>
  /\ lastFrame.ops = <<"white", "background", "icon", "title", "watermark">>
  /\ lastFrame.complete

\* C19: every updateCanvas call (a configuration change, the exposed call,
\* the one of onMounted) emits canvas-update once, with the debounce timer of
\* the call queued; no other step of the component emits it.
C19_OneEmitPerUpdate ==
  /\ [][UpdateCanvasStep =>
          /\ ev'.emit
          /\ ev'.op \in {"configChange", "exposedUpdateCanvas", "mounted"}
          /\ updateTimer' \in timers']_vars
  /\ [][ev'.emit => UpdateCanvasStep]_vars
  /\ [][(TickStep \/ RenderStep \/ UpdateTargetsStep
          \/ Len(loading') < Len(loading) \/ Len(waiting') < Len(waiting))
          => ~ev'.emit]_vars

C19_Witness ==
  /\ ev.op = "configChange"
  /\ ev.emit
  /\ updateTimer \in timers
  /\ animationLoopRunning
  /\ lastFrame.drawn

\* C20: waitForFont goes round its loop only while less than maxWait has
\* elapsed, so it returns at the first test of the loop condition at or after
\* maxWait (less than maxWait plus one round of check and sleep after its
\* start), also when the font is never detected; renderCurrentFrame then
\* registers its frame callback, and the frame is drawn.
C20_FontWaitBounded ==
  /\ [](\A i \in DOMAIN waiting : waiting[i].elapsed < FONT_MAX_WAIT)
  /\ [](mount.pc = "waiting" => mount.elapsed < FONT_MAX_WAIT)
  /\ [](ev.op = "tickResume" =>
          \E d \in PollDelays : ev.waited < FONT_MAX_WAIT + d)
  /\ [][Len(waiting') < Len(waiting) =>
          Count(rafQueue', "render") = Count(rafQueue, "render") + 1]_vars
  /\ (waiting # <<>>) ~> (waiting = <<>> /\ lastFrame.drawn)

C20_Witness ==
  /\ ev.op = "renderCb"
  /\ lastFrame.drawn
  /\ ~fontLoaded
  /\ fontEnv = "absent"
  /\ nEvents = 0

\* C21: every preview frame draws each of the eleven animated scalars at the
\* value of its AnimationState when the frame callback runs: after a frame
\* has been composed by the frame callback, the value the frame used for
\* every scalar is the value of that scalar's state.
C21_FrameShowsAnimatedValues ==
  (ev.op = "renderCb" /\ ev.rcf = "drawn")
    => \A k \in Keys : lastFrame.used[k] = animationStates[k].value

\* C22: icon cache coherence: in every reachable state a non-empty
\* iconImageCache holds the rasterization of the current props.iconConfig.svg,
\* also after an onload that runs when the source has changed since drawIcon
\* started the rasterization.
C22_CacheCoherent == iconImageCache # NoImage => iconImageCache = props.svg

\* C23: at most one animation loop exists at any time: at most one
\* animationLoop callback is registered for a display frame or suspended in
\* its await, and animationLoopRunning is true exactly while there is one;
\* a debounce timer firing while the flag is set registers no callback.
C23_OneLoop ==
  /\ [](LoopsAlive <= 1 /\ (animationLoopRunning <=> LoopsAlive = 1))
  /\ [][(UpdateTargetsStep /\ animationLoopRunning) => LoopsAlive' = LoopsAlive]_vars

\* a debounce timer has fired while a tick is suspended in
\* `await renderCurrentFrame()`, and there is still one loop
C23_Witness ==
  /\ ev.op = "updateAnimationTargets"
  /\ Len(waiting) = 1
  /\ animationLoopRunning
  /\ LoopsAlive = 1

====
